---------------------------- MODULE Spec2Model ----------------------------
(***************************************************************************)
(* Reversi: the Game engine of game.py and the ReversiBot of bot.py.       *)
(*                                                                         *)
(* The board is a BOARD_SIZE x BOARD_SIZE grid, board[row][col], indexed   *)
(* from 0 as in the source.  game.py fixes BOARD_SIZE = 8 and the opening  *)
(* square at rows/columns 3 and 4; here the side length is a bound of the  *)
(* model and the opening square is the centre square of the grid           *)
(* (BOARD_SIZE \div 2 - 1 and BOARD_SIZE \div 2, which is 3 and 4 for 8).  *)
(***************************************************************************)
EXTENDS Integers, Sequences, FiniteSets, TLC

\* Side length of the board (Game.BOARD_SIZE, scaled down).
BOARD_SIZE == 4

\* Most move calls that run to completion in one behaviour of Spec.
MaxMoves == 6

\* DeepSpec: the caller plays one of the first MaxChoice keys of the map.
MaxChoice == 2

\* Largest search depth handed to ReversiBot.analyze.
MaxDepth == 2

\* RestartSpec: most move calls that run to completion in one behaviour.
MaxEarlyMoves == 3

BLACK == "BLACK"
WHITE == "WHITE"
UNTOUCHED == "UNTOUCHED"
\* Python's None, the value of _my_color/_opponent_color before start.
NONE == "None"

INITIALIZING == "INITIALIZING"
RUNNING_BLACK == "RUNNING_BLACK"
RUNNING_WHITE == "RUNNING_WHITE"
WIN_BLACK == "WIN_BLACK"
WIN_WHITE == "WIN_WHITE"
DRAW == "DRAW"

\* GAMESTATE.is_running
is_running(s) == s \in {RUNNING_WHITE, RUNNING_BLACK}

\* GAMESTATE.is_finished
is_finished(s) == s \in {WIN_BLACK, WIN_WHITE, DRAW}

\* Game.DIRECTIONS, in the order of the source list.
DIRECTIONS ==
    << <<-1, -1>>, <<-1, 0>>, <<-1, 1>>,
       <<0, -1>>, <<0, 1>>,
       <<1, -1>>, <<1, 0>>, <<1, 1>> >>

Rows == 0 .. (BOARD_SIZE - 1)
Cells == Rows \X Rows

\* The rows/columns of the four cells start() fills.
CENTER_LO == (BOARD_SIZE \div 2) - 1
CENTER_HI == BOARD_SIZE \div 2

VARIABLES
    board,            \* Game.board
    state,            \* Game._state
    legal_moves,      \* Game._legal_moves: cell -> sequence of directions
    my_color,         \* Game._my_color
    opponent_color,   \* Game._opponent_color
    remain,           \* Game._remain
    white_count,      \* Game._white_count
    black_count,      \* Game._black_count
    no_move_round,    \* Game._no_move_round
    op,               \* the operation called last: "init", "start", "move", "analyze"
    ret,              \* how that call ended
    moves,            \* number of move calls that ran to completion
    bot_move,         \* the move ReversiBot.analyze returned last; << >> is None
    play              \* main() of play.py: its position and its locals

gamevars == <<board, state, legal_moves, my_color, opponent_color,
              remain, white_count, black_count, no_move_round>>
vars == <<board, state, legal_moves, my_color, opponent_color,
          remain, white_count, black_count, no_move_round, op, ret, moves,
          bot_move, play>>

(***************************************************************************)
(* Python list indexing: list[i] of a list of length BOARD_SIZE raises     *)
(* IndexError unless -BOARD_SIZE <= i < BOARD_SIZE; a negative i counts    *)
(* from the end.                                                           *)
(***************************************************************************)
PyIndexOk(i) == -BOARD_SIZE <= i /\ i < BOARD_SIZE
PyIndex(i) == IF i < 0 THEN i + BOARD_SIZE ELSE i

InBounds(r, c) == 0 <= r /\ r < BOARD_SIZE /\ 0 <= c /\ c < BOARD_SIZE

\* The empty dict {}.
EmptyMap == [m \in {} |-> << >>]

(***************************************************************************)
(* Game._search_available_directions: the while loop of one direction.     *)
(* Returns <<r, c, count>> as the loop leaves them.                        *)
(***************************************************************************)
RECURSIVE ScanRun(_, _, _, _, _, _)
ScanRun(b, r, c, d, opp, count) ==
    IF InBounds(r, c) /\ b[r][c] = opp
    THEN ScanRun(b, r + d[1], c + d[2], d, opp, count + 1)
    ELSE <<r, c, count>>

DirectionCaptures(b, row, col, d, my, opp) ==
    LET e == ScanRun(b, row + d[1], col + d[2], d, opp, 0)
    IN  /\ e[3] > 0
        /\ InBounds(e[1], e[2])
        /\ b[e[1]][e[2]] = my

\* Game._search_available_directions
search_available_directions(b, row, col, my, opp) ==
    SelectSeq(DIRECTIONS, LAMBDA d : DirectionCaptures(b, row, col, d, my, opp))

\* The body of Game._search_legal_moves, on a given board for given colours.
SearchLegalMoves(b, my, opp) ==
    LET dirs == [m \in Cells |->
                    IF b[m[1]][m[2]] = UNTOUCHED
                    THEN search_available_directions(b, m[1], m[2], my, opp)
                    ELSE << >>]
        keys == {m \in Cells : Len(dirs[m]) > 0}
    IN  [m \in keys |-> dirs[m]]

\* Game._count_board: <<white, black, remain>>
count_board(b) ==
    <<Cardinality({m \in Cells : b[m[1]][m[2]] = WHITE}),
      Cardinality({m \in Cells : b[m[1]][m[2]] = BLACK}),
      Cardinality({m \in Cells : b[m[1]][m[2]] = UNTOUCHED})>>

\* Game._end: the state it assigns, from the counts held by the Game.
EndState(white, black) ==
    IF white = black THEN DRAW
    ELSE IF white > black THEN WIN_WHITE
    ELSE WIN_BLACK

\* The state setter: the colours that go with a state value.
MyColorOf(s, old) ==
    IF s = RUNNING_BLACK THEN BLACK
    ELSE IF s = RUNNING_WHITE THEN WHITE
    ELSE old

OpponentColorOf(s, old) ==
    IF s = RUNNING_BLACK THEN WHITE
    ELSE IF s = RUNNING_WHITE THEN BLACK
    ELSE old

(***************************************************************************)
(* Game.move, lines 99-103: the flip walk of one direction.  board[r][c]   *)
(* is Python indexing, so the walk raises IndexError when it leaves        *)
(* -BOARD_SIZE .. BOARD_SIZE-1 and reads from the far side for -1, -2 ...  *)
(* The cells flipped before an IndexError stay flipped.                    *)
(***************************************************************************)
RECURSIVE FlipWalk(_, _, _, _, _, _)
FlipWalk(b, r, c, d, my, opp) ==
    IF ~(PyIndexOk(r) /\ PyIndexOk(c))
    THEN [err |-> TRUE, board |-> b]
    ELSE IF b[PyIndex(r)][PyIndex(c)] = opp
    THEN FlipWalk([b EXCEPT ![PyIndex(r)][PyIndex(c)] = my],
                  r + d[1], c + d[2], d, my, opp)
    ELSE [err |-> FALSE, board |-> b]

\* The for loop over available_directions, from the i-th direction on.
RECURSIVE FlipDirections(_, _, _, _, _, _, _)
FlipDirections(b, row, col, dirs, i, my, opp) ==
    IF i > Len(dirs)
    THEN [err |-> FALSE, board |-> b]
    ELSE LET w == FlipWalk(b, row + dirs[i][1], col + dirs[i][2], dirs[i], my, opp)
         IN  IF w.err THEN w
             ELSE FlipDirections(w.board, row, col, dirs, i + 1, my, opp)

(***************************************************************************)
(* ReversiBot (bot.py).  A call that never returns is the result           *)
(* exc = "Diverges"; a call left by an exception carries its name in exc;  *)
(* exc = "none" is a normal return.                                        *)
(***************************************************************************)
INF == 10000
SCORE_CORNER == 100
SCORE_AROUND == -10
SCORE_BOUND == 10
SCORE_NORMAL == 1

\* Board scan order: for row in range(..): for col in range(..).
ScanOrder == [i \in 1 .. (BOARD_SIZE * BOARD_SIZE) |->
                 <<(i - 1) \div BOARD_SIZE, (i - 1) % BOARD_SIZE>>]

(***************************************************************************)
(* bot.py lines 87-90, the while loop of _search_available_directions.     *)
(* Its body is  count += 1;  r, c = row + d[0], col + d[1]  : the cursor   *)
(* is set from row, col again.  When an iteration leaves r, c as they      *)
(* were, the guard (which reads only r, c and the board) holds for ever    *)
(* and the loop never ends.                                                *)
(***************************************************************************)
RECURSIVE BotScanRun(_, _, _, _, _, _, _, _)
BotScanRun(b, row, col, d, opp, r, c, count) ==
    IF InBounds(r, c) /\ b[r][c] = opp
    THEN LET r2 == row + d[1]
             c2 == col + d[2]
         IN  IF r2 = r /\ c2 = c
             THEN [exc |-> "Diverges", r |-> r, c |-> c, count |-> count + 1]
             ELSE BotScanRun(b, row, col, d, opp, r2, c2, count + 1)
    ELSE [exc |-> "none", r |-> r, c |-> c, count |-> count]

(***************************************************************************)
(* bot.py lines 81-95, the nested _search_available_directions.  The       *)
(* return statement stands inside the for loop, so the function returns    *)
(* at the end of the first iteration, d = DIRECTIONS[0].                   *)
(***************************************************************************)
BotSearchAvailableDirections(b, row, col, my, opp) ==
    LET d == DIRECTIONS[1]
        e == BotScanRun(b, row, col, d, opp, row + d[1], col + d[2], 0)
    IN  IF e.exc # "none"
        THEN [exc |-> e.exc, dirs |-> << >>]
        ELSE IF e.count > 0 /\ InBounds(e.r, e.c) /\ b[e.r][e.c] = my
        THEN [exc |-> "none", dirs |-> <<d>>]
        ELSE [exc |-> "none", dirs |-> << >>]

\* ReversiBot._search_legal_moves(board, is_max); my0/opp0 are
\* self.my_color and self.opponent_color.
BotSearchLegalMoves(b, is_max, my0, opp0) ==
    LET my == IF is_max THEN my0 ELSE opp0
        opp == IF is_max THEN opp0 ELSE my0
        res == [m \in Cells |->
                   IF b[m[1]][m[2]] = UNTOUCHED
                   THEN BotSearchAvailableDirections(b, m[1], m[2], my, opp)
                   ELSE [exc |-> "none", dirs |-> << >>]]
        keys == {m \in Cells : Len(res[m].dirs) > 0}
    IN  IF \E m \in Cells : res[m].exc # "none"
        THEN [exc |-> "Diverges", map |-> EmptyMap]
        ELSE [exc |-> "none", map |-> [m \in keys |-> res[m].dirs]]

\* The weight grid of _evaluate, lines 117-133.
Weight(row, col) ==
    LET size == BOARD_SIZE
        bound == {0, size - 1}
        around == {0, 1, size - 2, size - 1}
    IN  IF 0 < row /\ row < size - 1 /\ 0 < col /\ col < size - 1
        THEN SCORE_NORMAL
        ELSE IF row \in bound /\ col \in bound THEN SCORE_CORNER
        ELSE IF row \in around /\ col \in around THEN SCORE_AROUND
        ELSE SCORE_BOUND

\* A slip that would leave out the elif of lines 140-141: only the cells of
\* self are summed.
RECURSIVE CellScoreOwnCellsOnly(_, _, _, _)
CellScoreOwnCellsOnly(b, my0, opp0, i) ==
    IF i > Len(ScanOrder) THEN 0
    ELSE LET m == ScanOrder[i]
         IN  (IF b[m[1]][m[2]] = my0 THEN Weight(m[1], m[2]) ELSE 0)
             + CellScoreOwnCellsOnly(b, my0, opp0, i + 1)

\* Lines 135-141: the sum over the cells in scan order, from cell i on.
RECURSIVE CellScore(_, _, _, _)
CellScore(b, my0, opp0, i) ==
    IF i > Len(ScanOrder) THEN 0
    ELSE LET m == ScanOrder[i]
             v == b[m[1]][m[2]]
         IN  (IF v = my0 THEN Weight(m[1], m[2])
              ELSE IF v = opp0 THEN -Weight(m[1], m[2])
              ELSE 0) + CellScore(b, my0, opp0, i + 1)

\* ReversiBot._evaluate
evaluate(b, my0, opp0) ==
    LET opponent_moves == BotSearchLegalMoves(b, FALSE, my0, opp0)
        my_moves == BotSearchLegalMoves(b, TRUE, my0, opp0)
        freedom_score ==
            (IF DOMAIN opponent_moves.map = {} THEN 100 ELSE 0)
            - (IF DOMAIN my_moves.map = {} THEN 100 ELSE 0)
    IN  IF opponent_moves.exc # "none" \/ my_moves.exc # "none"
        THEN [exc |-> "Diverges", score |-> 0]
        ELSE [exc |-> "none", score |-> CellScore(b, my0, opp0, 1) + freedom_score]

(***************************************************************************)
(* bot.py lines 66-67, the flip loop of the simulated move:                *)
(*   while new_board[r][c] == opponent_color: new_board[r][c] = my_color   *)
(* r and c are never advanced; the indexing is Python's.                   *)
(***************************************************************************)
RECURSIVE BotFlipWalk(_, _, _, _, _)
BotFlipWalk(b, r, c, my, opp) ==
    IF ~(PyIndexOk(r) /\ PyIndexOk(c))
    THEN [exc |-> "IndexError", board |-> b]
    ELSE IF b[PyIndex(r)][PyIndex(c)] = opp
    THEN BotFlipWalk([b EXCEPT ![PyIndex(r)][PyIndex(c)] = my], r, c, my, opp)
    ELSE [exc |-> "none", board |-> b]

RECURSIVE BotFlipDirections(_, _, _, _, _, _, _)
BotFlipDirections(b, row, col, dirs, i, my, opp) ==
    IF i > Len(dirs)
    THEN [exc |-> "none", board |-> b]
    ELSE LET w == BotFlipWalk(b, row + dirs[i][1], col + dirs[i][2], my, opp)
         IN  IF w.exc # "none" THEN w
             ELSE BotFlipDirections(w.board, row, col, dirs, i + 1, my, opp)

\* Lines 61-67: the child board of one candidate move.
BotChildBoard(b, row, col, dirs, my, opp) ==
    BotFlipDirections([b EXCEPT ![row][col] = my], row, col, dirs, 1, my, opp)

Max(a, b) == IF a >= b THEN a ELSE b

(***************************************************************************)
(* ReversiBot._negamax.  A move is <<row, col>>; << >> is None.            *)
(* NegamaxLoop is the for loop of lines 59-78 from the i-th key of         *)
(* legal_moves (keys in insertion order, which is scan order).             *)
(***************************************************************************)
RECURSIVE negamax(_, _, _, _, _, _, _)
RECURSIVE NegamaxLoop(_, _, _, _, _, _, _, _, _, _, _, _)
negamax(b, depth, alpha, beta, is_max, my0, opp0) ==
    LET flag == IF is_max THEN 1 ELSE -1
        leaf == LET e == evaluate(b, my0, opp0)
                IN  [exc |-> e.exc, move |-> << >>, score |-> flag * e.score]
    IN  IF depth <= 0 THEN leaf
        ELSE LET lm == BotSearchLegalMoves(b, is_max, my0, opp0)
             IN  IF lm.exc # "none"
                 THEN [exc |-> lm.exc, move |-> << >>, score |-> 0]
                 ELSE IF DOMAIN lm.map = {}
                 THEN LET olm == BotSearchLegalMoves(b, ~is_max, my0, opp0)
                      IN  IF olm.exc # "none"
                          THEN [exc |-> olm.exc, move |-> << >>, score |-> 0]
                          ELSE IF DOMAIN olm.map = {} THEN leaf
                          ELSE LET sub == negamax(b, depth - 1, -beta, -alpha,
                                                  ~is_max, my0, opp0)
                               IN  [exc |-> sub.exc, move |-> << >>,
                                    score |-> -sub.score]
                 ELSE NegamaxLoop(b, depth, alpha, beta, is_max, my0, opp0,
                                  lm.map,
                                  SelectSeq(ScanOrder, LAMBDA m : m \in DOMAIN lm.map),
                                  1, << >>, -INF)

NegamaxLoop(b, depth, alpha, beta, is_max, my0, opp0, lm, keys, i, max_move, max_score) ==
    IF i > Len(keys)
    THEN [exc |-> "none", move |-> max_move, score |-> max_score]
    ELSE LET mv == keys[i]
             my == IF is_max THEN my0 ELSE opp0
             opp == IF is_max THEN opp0 ELSE my0
             child == BotChildBoard(b, mv[1], mv[2], lm[mv], my, opp)
         IN  IF child.exc # "none"
             THEN [exc |-> child.exc, move |-> << >>, score |-> 0]
             ELSE LET sub == negamax(child.board, depth - 1, -beta, -alpha,
                                     ~is_max, my0, opp0)
                      score == -sub.score
                  IN  IF sub.exc # "none"
                      THEN [exc |-> sub.exc, move |-> << >>, score |-> 0]
                      ELSE IF score > alpha /\ score >= beta
                      THEN [exc |-> "none", move |-> mv, score |-> score]
                      ELSE NegamaxLoop(b, depth,
                                       IF score > alpha THEN Max(alpha, score)
                                       ELSE alpha,
                                       beta, is_max, my0, opp0, lm, keys, i + 1,
                                       IF score > max_score THEN mv ELSE max_move,
                                       IF score > max_score THEN score
                                       ELSE max_score)

Init ==
    /\ board = [r \in Rows |-> [c \in Rows |-> UNTOUCHED]]
    /\ state = INITIALIZING
    /\ legal_moves = EmptyMap
    /\ my_color = NONE
    /\ opponent_color = NONE
    /\ remain = 0
    /\ white_count = 0
    /\ black_count = 0
    /\ no_move_round = 0
    /\ op = "init"
    /\ ret = "ok"
    /\ moves = 0
    /\ bot_move = << >>
    /\ play = [pc |-> "main", is_my_turn |-> TRUE, input |-> << >>]

(***************************************************************************)
(* Game.start(black_first); colors is the outcome of random.shuffle.       *)
(***************************************************************************)
start(black_first, colors) ==
    LET b == [board EXCEPT ![CENTER_LO][CENTER_LO] = colors[1],
                           ![CENTER_LO][CENTER_HI] = colors[2],
                           ![CENTER_HI][CENTER_LO] = colors[2],
                           ![CENTER_HI][CENTER_HI] = colors[1]]
        cnt == count_board(b)
        s == IF black_first THEN RUNNING_BLACK ELSE RUNNING_WHITE
        my == MyColorOf(s, my_color)
        opp == OpponentColorOf(s, opponent_color)
    IN  /\ board' = b
        /\ white_count' = cnt[1]
        /\ black_count' = cnt[2]
        /\ remain' = cnt[3]
        /\ state' = s
        /\ my_color' = my
        /\ opponent_color' = opp
        /\ legal_moves' = SearchLegalMoves(b, my, opp)
        /\ UNCHANGED no_move_round
        /\ op' = "start"
        /\ ret' = "ok"
        /\ UNCHANGED <<moves, bot_move>>

(***************************************************************************)
(* Game._switch_side, entered with the board and counts move() has just    *)
(* written.  The result is the record of the fields it leaves.             *)
(***************************************************************************)
switch_side(b, white, black) ==
    LET s == IF state = RUNNING_BLACK THEN RUNNING_WHITE ELSE RUNNING_BLACK
        my == MyColorOf(s, my_color)
        opp == OpponentColorOf(s, opponent_color)
        found == SearchLegalMoves(b, my, opp)
    IN  IF DOMAIN found # {}
        THEN [state |-> s, my |-> my, opp |-> opp,
              legal |-> found, rounds |-> 0]
        ELSE [state |-> IF no_move_round + 1 >= 2
                        THEN EndState(white, black) ELSE s,
              my |-> my, opp |-> opp,
              legal |-> legal_moves, rounds |-> no_move_round + 1]

\* A slip that would place the piece before the key is looked up.
MoveRejectedAfterPlacing(row, col) ==
    /\ ret' = "illegal"
    /\ board' = IF InBounds(row, col)
                THEN [board EXCEPT ![row][col] = my_color]
                ELSE board
    /\ UNCHANGED <<state, legal_moves, my_color, opponent_color, remain,
                   white_count, black_count, no_move_round, moves>>

\* Game.move, lines 110-112: the KeyError branch for a cell that is no key
\* of the map.  The lookup of line 96 is the first statement of the try.
MoveRejected(row, col) ==
    /\ ret' = "illegal"
    /\ UNCHANGED gamevars
    /\ UNCHANGED moves

(***************************************************************************)
(* Game.move(row, col).  ret is "illegal" for the KeyError branch (the     *)
(* message is printed and the call returns), "ok" for a call that runs to  *)
(* its end, and the name of the exception for one that leaves move() by    *)
(* an exception other than KeyError.                                       *)
(***************************************************************************)
move(row, col) ==
    /\ op' = "move"
    /\ UNCHANGED bot_move
    /\ IF <<row, col>> \notin DOMAIN legal_moves
       THEN MoveRejected(row, col)
       ELSE LET fl == FlipDirections([board EXCEPT ![row][col] = my_color],
                                     row, col, legal_moves[<<row, col>>], 1,
                                     my_color, opponent_color)
                cnt == count_board(fl.board)
            IN  /\ board' = fl.board
                /\ IF fl.err
                   THEN /\ ret' = "IndexError"
                        /\ UNCHANGED <<state, legal_moves, my_color, opponent_color,
                                       remain, white_count, black_count,
                                       no_move_round, moves>>
                   ELSE /\ white_count' = cnt[1]
                        /\ black_count' = cnt[2]
                        /\ remain' = cnt[3]
                        /\ IF cnt[3] = 0
                           THEN /\ state' = EndState(cnt[1], cnt[2])
                                /\ ret' = "ok"
                                /\ moves' = moves + 1
                                /\ UNCHANGED <<legal_moves, my_color,
                                               opponent_color, no_move_round>>
                           ELSE IF ~is_running(state)
                           THEN /\ ret' = "AssertionError"
                                /\ UNCHANGED <<state, legal_moves, my_color,
                                               opponent_color, no_move_round, moves>>
                           ELSE LET sw == switch_side(fl.board, cnt[1], cnt[2])
                                IN  /\ state' = sw.state
                                    /\ my_color' = sw.my
                                    /\ opponent_color' = sw.opp
                                    /\ legal_moves' = sw.legal
                                    /\ no_move_round' = sw.rounds
                                    /\ ret' = "ok"
                                    /\ moves' = moves + 1

(***************************************************************************)
(* ReversiBot.analyze(game, depth), called on the Game as it is.  The      *)
(* assert of line 27 fails for a game that is not running or a depth <= 0. *)
(* ret = "Diverges" is the call that never returns.                        *)
(***************************************************************************)
AnalyzeResult(depth) ==
    negamax(board, depth, -INF, INF, TRUE, my_color, opponent_color)

\* A slip that would let the search fill the Game's map, not a dict of its own.
AnalyzeFillsGameMap(depth) ==
    LET lm == BotSearchLegalMoves(board, TRUE, my_color, opponent_color)
    IN  /\ legal_moves' = IF is_running(state) /\ depth > 0 /\ lm.exc = "none"
                          THEN lm.map ELSE legal_moves
        /\ UNCHANGED <<board, state, my_color, opponent_color, remain,
                       white_count, black_count, no_move_round>>

\* What a call of analyze writes to the Game: nothing.  Lines 28-31 read
\* game.state, game.my_color, game.opponent_color and game.board and assign
\* the bot's own fields; _negamax writes to new_board, a deepcopy (lines
\* 61-67); _search_legal_moves and _evaluate fill local dicts and lists.
AnalyzeLeavesGame(depth) == UNCHANGED gamevars

analyze(depth) ==
    /\ op' = "analyze"
    /\ AnalyzeLeavesGame(depth)
    /\ UNCHANGED moves
    /\ IF ~(is_running(state) /\ depth > 0)
       THEN /\ ret' = "AssertionError"
            /\ UNCHANGED bot_move
       ELSE LET res == AnalyzeResult(depth)
            IN  IF res.exc # "none"
                THEN /\ ret' = res.exc
                     /\ UNCHANGED bot_move
                ELSE /\ ret' = "ok"
                     /\ bot_move' = res.move

\* The inputs of move: every cell, and one row/column off each edge.
Inputs == (-1) .. BOARD_SIZE

(***************************************************************************)
(* The caller.  The program is single-threaded: after a call that never    *)
(* returns (ret = "Diverges") nothing more happens.  An exception that     *)
(* leaves a call is caught by the caller (play.py, lines 45-46), which     *)
(* goes on using the Game.                                                 *)
(***************************************************************************)
CallStart ==
    /\ state = INITIALIZING
    /\ ret # "Diverges"
    /\ UNCHANGED play
    /\ \E black_first \in BOOLEAN, colors \in {<<BLACK, WHITE>>, <<WHITE, BLACK>>} :
          start(black_first, colors)

\* start() called again on a Game that has been started: the method has no
\* check of the state and runs as the first time.
CallStartAgain ==
    /\ state # INITIALIZING
    /\ ret # "Diverges"
    /\ UNCHANGED play
    /\ \E black_first \in BOOLEAN, colors \in {<<BLACK, WHITE>>, <<WHITE, BLACK>>} :
          start(black_first, colors)

CallMove ==
    /\ ret # "Diverges"
    /\ UNCHANGED play
    /\ \E row \in Inputs, col \in Inputs :
          /\ <<row, col>> \in DOMAIN legal_moves => moves < MaxMoves
          /\ move(row, col)

CallAnalyze ==
    /\ ret # "Diverges"
    /\ UNCHANGED play
    /\ \E depth \in 0 .. MaxDepth : analyze(depth)

Next == CallStart \/ CallMove \/ CallAnalyze

Spec == Init /\ [][Next]_vars

(***************************************************************************)
(* DeepSpec: whole games.  The caller starts the game and then, as long    *)
(* as the game is running (play.py leaves its loop once the state is       *)
(* finished), plays a cell the Game offers: one of the first MaxChoice     *)
(* keys of the legal-move map in its iteration order (insertion order,     *)
(* which is scan order).  Every behaviour of DeepSpec is a behaviour of    *)
(* the program; it is used to reach late positions, not to confirm.        *)
(***************************************************************************)
LegalKeys == SelectSeq(ScanOrder, LAMBDA m : m \in DOMAIN legal_moves)

PlayOffered ==
    /\ is_running(state)
    /\ UNCHANGED play
    /\ moves <= BOARD_SIZE * BOARD_SIZE
    /\ \E i \in 1 .. MaxChoice :
          /\ i <= Len(LegalKeys)
          /\ move(LegalKeys[i][1], LegalKeys[i][2])

DeepNext == CallStart \/ PlayOffered

DeepSpec == Init /\ [][DeepNext]_vars

(***************************************************************************)
(* PlaySpec: main() of play.py.  play.pc is "main" before line 22, "loop"  *)
(* at the top of the while loop and "done" after the break of line 41;     *)
(* play.is_my_turn is the flag of line 25 (not yet assigned before it) and *)
(* play.input the row and column read or computed last.  One action is one *)
(* iteration of the loop.  An exception that leaves the try block is       *)
(* printed by lines 45-46 and the loop goes on with the flag as it was.    *)
(***************************************************************************)
DEPTH == 5

\* Lines 38-41 after a call of game.move that returned: the flag is
\* inverted and the loop is left when the game is finished.
AfterMove(row, col) ==
    play' = IF ret' \in {"ok", "illegal"}
            THEN [pc |-> IF is_finished(state') THEN "done" ELSE "loop",
                  is_my_turn |-> ~play.is_my_turn,
                  input |-> <<row, col>>]
            ELSE [play EXCEPT !.input = <<row, col>>]

\* Lines 18-25.
PlayStart ==
    /\ play.pc = "main"
    /\ state = INITIALIZING
    /\ \E colors \in {<<BLACK, WHITE>>, <<WHITE, BLACK>>} : start(TRUE, colors)
    /\ play' = [pc |-> "loop", is_my_turn |-> TRUE, input |-> << >>]

\* Lines 29-32: the human's row and column, two integers.
HumanTurn ==
    /\ play.pc = "loop"
    /\ play.is_my_turn
    /\ ret # "Diverges"
    /\ \E row \in Inputs, col \in Inputs :
          /\ move(row, col)
          /\ AfterMove(row, col)

\* Lines 34-36: row, col = bot.analyze(game, DEPTH) raises TypeError when
\* analyze returns None.
BotTurn ==
    /\ play.pc = "loop"
    /\ ~play.is_my_turn
    /\ ret # "Diverges"
    /\ IF ~(is_running(state) /\ DEPTH > 0)
       THEN /\ op' = "analyze"
            /\ ret' = "AssertionError"
            /\ UNCHANGED <<gamevars, moves, bot_move, play>>
       ELSE LET res == AnalyzeResult(DEPTH)
            IN  IF res.exc # "none"
                THEN /\ op' = "analyze"
                     /\ ret' = res.exc
                     /\ UNCHANGED <<gamevars, moves, bot_move, play>>
                ELSE IF res.move = << >>
                THEN /\ op' = "analyze"
                     /\ ret' = "TypeError"
                     /\ UNCHANGED <<gamevars, moves, bot_move, play>>
                ELSE /\ move(res.move[1], res.move[2])
                     /\ AfterMove(res.move[1], res.move[2])

PlayNext == PlayStart \/ HumanTurn \/ BotTurn

PlaySpec == Init /\ [][PlayNext]_vars

(***************************************************************************)
(* RestartSpec: a caller that may call start() again at any time, and      *)
(* plays offered cells as in DeepSpec for the first MaxEarlyMoves moves.   *)
(***************************************************************************)
PlayEarly ==
    /\ moves < MaxEarlyMoves
    /\ PlayOffered

RestartNext == CallStart \/ CallStartAgain \/ PlayEarly

RestartSpec == Init /\ [][RestartNext]_vars

(***************************************************************************)
(* The rules of the game, stated on their own (not by the scan of the      *)
(* source): placing a piece of colour my on the empty cell m captures in   *)
(* direction d when a run of k >= 1 opponent cells starts next to m and    *)
(* the cell behind the run is on the board and holds my.                   *)
(***************************************************************************)
At(b, m) == b[m[1]][m[2]]
Ahead(m, d, k) == <<m[1] + k * d[1], m[2] + k * d[2]>>
DirectionSet == {DIRECTIONS[i] : i \in 1 .. Len(DIRECTIONS)}

Captures(b, m, d, my, opp) ==
    \E k \in 1 .. (BOARD_SIZE - 1) :
        /\ \A j \in 1 .. k :
              /\ Ahead(m, d, j) \in Cells
              /\ At(b, Ahead(m, d, j)) = opp
        /\ Ahead(m, d, k + 1) \in Cells
        /\ At(b, Ahead(m, d, k + 1)) = my

LegalCells(b, my, opp) ==
    {m \in Cells : At(b, m) = UNTOUCHED
                   /\ \E d \in DirectionSet : Captures(b, m, d, my, opp)}

\* The side the state names, and the other one.
SideToMove == IF state = RUNNING_BLACK THEN BLACK ELSE WHITE
OtherSide == IF state = RUNNING_BLACK THEN WHITE ELSE BLACK

BlackOnBoard == Cardinality({m \in Cells : At(board, m) = BLACK})
WhiteOnBoard == Cardinality({m \in Cells : At(board, m) = WHITE})

\* C1: while the game is running, the keys of the legal-move map are exactly
\* the empty cells from which the side the state names captures in at least
\* one direction on the current board.
C1_LegalMapIsCurrent ==
    is_running(state) =>
        DOMAIN legal_moves = LegalCells(board, SideToMove, OtherSide)

\* C2: after a move call that ran to completion and left the game running,
\* the side the state names has at least one legal move on the board.
C2_SideToMoveCanMove ==
    (op = "move" /\ ret = "ok" /\ is_running(state)) =>
        LegalCells(board, SideToMove, OtherSide) # {}

\* C3: after a move call that ran to completion and left a board on which
\* neither colour has a legal move, the game is finished, with the outcome
\* that the black and white numbers of that board give.
C3_DoublePassEnds ==
    (/\ op = "move"
     /\ ret = "ok"
     /\ LegalCells(board, BLACK, WHITE) = {}
     /\ LegalCells(board, WHITE, BLACK) = {}) =>
        (/\ is_finished(state)
         /\ state = EndState(WhiteOnBoard, BlackOnBoard))

\* C4: once BOARD_SIZE * BOARD_SIZE move calls have run to completion the
\* game is no longer running.
C4_FinishedWithinNN ==
    moves >= BOARD_SIZE * BOARD_SIZE => ~is_running(state)

\* C5: a move call that is rejected as illegal leaves the board, the
\* counts, the state, the colours, the legal-move map and the
\* no-move-round counter as they were.
C5_RejectedMoveChangesNothing ==
    [][(op' = "move" /\ ret' = "illegal") => UNCHANGED gamevars]_vars

\* A move has been rejected in the middle of a running game.
C5_Witness ==
    /\ op = "move"
    /\ ret = "illegal"
    /\ is_running(state)
    /\ moves >= 2

\* C6, for a started game only: once start has run, the black, white and
\* empty counts held by the Game add up to BOARD_SIZE * BOARD_SIZE, after
\* start and after every later move call however it ends.
C6_CountsSumOnceStarted ==
    state # INITIALIZING =>
        black_count + white_count + remain = BOARD_SIZE * BOARD_SIZE

\* C6 as stated: the counts add up to BOARD_SIZE * BOARD_SIZE after every
\* operation, start or move call.
C6_CountsSumAfterEveryOperation ==
    op \in {"start", "move"} =>
        black_count + white_count + remain = BOARD_SIZE * BOARD_SIZE

\* C7: in a finished game the outcome is the one the pieces on the board
\* give: WIN_BLACK iff more black than white cells, WIN_WHITE iff more white
\* than black, DRAW iff as many; also after further move calls.
C7_OutcomeAgreesWithBoard ==
    is_finished(state) => state = EndState(WhiteOnBoard, BlackOnBoard)

\* C7, the moment the game ends: the step that finishes the game sets the
\* outcome the pieces of the new board give.
C7_OutcomeWhenFinishing ==
    [][(~is_finished(state) /\ is_finished(state')) =>
          state' = EndState(Cardinality({m \in Cells : At(board', m) = WHITE}),
                            Cardinality({m \in Cells : At(board', m) = BLACK}))]_vars

\* C8: a move call made while the state is not running ends in an assertion
\* failure and leaves the board as it was.
C8_MoveOutsideRunningFailsLoudly ==
    [][(~is_running(state) /\ op' = "move") =>
          (ret' = "AssertionError" /\ board' = board)]_vars

\* C9: when analyze returns on a running game, it returns a legal move of
\* the side to move if that side has one, and None only if it has none.
C9_AnalyzeReturnsLegalMove ==
    (op = "analyze" /\ ret = "ok") =>
        IF LegalCells(board, SideToMove, OtherSide) # {}
        THEN bot_move \in LegalCells(board, SideToMove, OtherSide)
        ELSE bot_move = << >>

\* C10: no call of analyze runs for ever.
C10_AnalyzeTerminates == ret # "Diverges"

(***************************************************************************)
(* The two components side by side, on the board and colours of the Game   *)
(* as ReversiBot.analyze receives them.                                    *)
(***************************************************************************)
DirsOf(seq) == {seq[i] : i \in 1 .. Len(seq)}
MoverOf(is_max) == IF is_max THEN my_color ELSE opponent_color
WaiterOf(is_max) == IF is_max THEN opponent_color ELSE my_color

\* C11: on every board, for either mover, a call of
\* ReversiBot._search_legal_moves that returns gives the same cells, each
\* with the same set of capturing directions, as Game._search_legal_moves
\* for that mover on that board.
C11_BotMoveGenerationAgreesWithGame ==
    state # INITIALIZING =>
        \A is_max \in BOOLEAN :
            LET r == BotSearchLegalMoves(board, is_max, my_color, opponent_color)
                g == SearchLegalMoves(board, MoverOf(is_max), WaiterOf(is_max))
            IN  r.exc = "none" =>
                    /\ DOMAIN r.map = DOMAIN g
                    /\ \A m \in DOMAIN g : DirsOf(r.map[m]) = DirsOf(g[m])

(***************************************************************************)
(* The search stated on the rules of the game: a full negamax without      *)
(* pruning over the tree of legal moves, the moves of a node taken in      *)
(* board scan order, the first move that reaches the best score kept.      *)
(***************************************************************************)
\* The run of k opponent cells from m in direction d, closed by a my cell.
CapturedRun(b, m, d, k, my, opp) ==
    /\ \A j \in 1 .. k :
          /\ Ahead(m, d, j) \in Cells
          /\ At(b, Ahead(m, d, j)) = opp
    /\ Ahead(m, d, k + 1) \in Cells
    /\ At(b, Ahead(m, d, k + 1)) = my

\* The cells a piece of colour my placed on m turns over.
Flipped(b, m, my, opp) ==
    {x \in Cells : \E d \in DirectionSet, k \in 1 .. (BOARD_SIZE - 1) :
                      /\ CapturedRun(b, m, d, k, my, opp)
                      /\ \E j \in 1 .. k : x = Ahead(m, d, j)}

\* The board after my has played m.
RuleBoard(b, m, my, opp) ==
    [r \in Rows |-> [c \in Rows |->
        IF <<r, c>> = m \/ <<r, c>> \in Flipped(b, m, my, opp)
        THEN my ELSE b[r][c]]]

\* The static value of a board for my0: the weighted cells of _evaluate and
\* the freedom score over the legal moves of the rules.
RuleEvaluate(b, my0, opp0) ==
    CellScore(b, my0, opp0, 1)
    + (IF LegalCells(b, opp0, my0) = {} THEN 100 ELSE 0)
    - (IF LegalCells(b, my0, opp0) = {} THEN 100 ELSE 0)

RECURSIVE FullNegamax(_, _, _, _, _)
RECURSIVE FullNegamaxLoop(_, _, _, _, _, _, _, _, _)
FullNegamax(b, depth, is_max, my0, opp0) ==
    LET flag == IF is_max THEN 1 ELSE -1
        my == IF is_max THEN my0 ELSE opp0
        opp == IF is_max THEN opp0 ELSE my0
        leaf == [move |-> << >>, score |-> flag * RuleEvaluate(b, my0, opp0)]
        keys == SelectSeq(ScanOrder, LAMBDA m : m \in LegalCells(b, my, opp))
    IN  IF depth <= 0 THEN leaf
        ELSE IF Len(keys) = 0
        THEN IF LegalCells(b, opp, my) = {} THEN leaf
             ELSE [move |-> << >>,
                   score |-> -FullNegamax(b, depth - 1, ~is_max, my0, opp0).score]
        ELSE FullNegamaxLoop(b, depth, is_max, my0, opp0, keys, 1, << >>, -INF)

FullNegamaxLoop(b, depth, is_max, my0, opp0, keys, i, max_move, max_score) ==
    IF i > Len(keys)
    THEN [move |-> max_move, score |-> max_score]
    ELSE LET my == IF is_max THEN my0 ELSE opp0
             opp == IF is_max THEN opp0 ELSE my0
             score == -FullNegamax(RuleBoard(b, keys[i], my, opp), depth - 1,
                                   ~is_max, my0, opp0).score
         IN  FullNegamaxLoop(b, depth, is_max, my0, opp0, keys, i + 1,
                             IF score > max_score THEN keys[i] ELSE max_move,
                             IF score > max_score THEN score ELSE max_score)

DepthZero(b, x, y) == negamax(b, 0, -INF, INF, TRUE, x, y)

\* C14: on every board, the depth-0 evaluations with BLACK as self and with
\* WHITE as self return for the same boards, and when they return the one
\* value is the negation of the other; so are the weighted cell scores, and
\* with them the freedom scores.
C14_DepthZeroValueIsAntisymmetric ==
    LET x == DepthZero(board, BLACK, WHITE)
        y == DepthZero(board, WHITE, BLACK)
    IN  /\ x.exc = y.exc
        /\ x.exc = "none" => x.score = -y.score
        /\ CellScore(board, BLACK, WHITE, 1) = -CellScore(board, WHITE, BLACK, 1)

\* A board in the middle of a game on which the evaluation returns a value
\* other than 0.
C14_Witness ==
    /\ moves >= 3
    /\ DepthZero(board, BLACK, WHITE).exc = "none"
    /\ DepthZero(board, BLACK, WHITE).score # 0
    /\ DepthZero(board, WHITE, BLACK).score # 0

\* C15: a call of start on a Game that is not in the initializing state
\* fails: it does not write the centre cells, the state or the legal-move
\* map.
C15_StartOutsideInitializingFails ==
    [][(state # INITIALIZING /\ op' = "start") =>
          (ret' # "ok" /\ UNCHANGED <<board, state, legal_moves>>)]_vars

\* The flip walk from m in direction d stays on the board and stops on a
\* cell of colour my, after k >= 0 opponent cells.
WalkStopsOnOwn(b, m, d, my, opp) ==
    \E k \in 0 .. (BOARD_SIZE - 1) : CapturedRun(b, m, d, k, my, opp)

\* The board with m and the opponent runs of the directions dirs turned to my.
WalkBoard(b, m, dirs, my, opp) ==
    [r \in Rows |-> [c \in Rows |->
        IF \/ <<r, c>> = m
           \/ \E d \in dirs, k \in 1 .. (BOARD_SIZE - 1) :
                 /\ CapturedRun(b, m, d, k, my, opp)
                 /\ \E j \in 1 .. k : <<r, c>> = Ahead(m, d, j)
        THEN my ELSE b[r][c]]]

\* C16: while the game is running, a move call that is accepted is the move
\* of a key m of the map whose flip walks, one per recorded direction, all
\* stay on the board and stop on a cell of the mover's colour; the call
\* turns m and the opponent runs of those walks to the mover's colour and
\* changes no other cell.
C16_FlipWalksStopOnOwnColour ==
    [][(is_running(state) /\ op' = "move" /\ ret' # "illegal") =>
          (/\ ret' # "IndexError"
           /\ \E m \in DOMAIN legal_moves :
                 /\ \A d \in DirsOf(legal_moves[m]) :
                       WalkStopsOnOwn(board, m, d, my_color, opponent_color)
                 /\ board' = WalkBoard(board, m, DirsOf(legal_moves[m]),
                                       my_color, opponent_color))]_vars

\* C18: while the game is running, every move call that is accepted places
\* its piece on an empty cell: exactly one empty cell becomes occupied, the
\* empty count goes down by one, and no occupied cell becomes empty.
C18_PieceOnlyOnEmptyCell ==
    [][(is_running(state) /\ op' = "move" /\ ret' # "illegal") =>
          (/\ Cardinality({m \in Cells : At(board, m) = UNTOUCHED
                                        /\ At(board', m) # UNTOUCHED}) = 1
           /\ remain' = remain - 1
           /\ \A m \in Cells : At(board, m) # UNTOUCHED =>
                                  At(board', m) # UNTOUCHED)]_vars

\* C18, for the moves of a current map: a move call that is accepted while
\* the map holds exactly the legal cells of the side to move places its
\* piece on an empty cell and lowers the empty count by one.
C18_PieceOnEmptyCellWithCurrentMap ==
    [][(/\ is_running(state)
        /\ DOMAIN legal_moves = LegalCells(board, SideToMove, OtherSide)
        /\ op' = "move"
        /\ ret' # "illegal") =>
          (/\ Cardinality({m \in Cells : At(board, m) = UNTOUCHED
                                        /\ At(board', m) # UNTOUCHED}) = 1
           /\ remain' = remain - 1)]_vars

\* C17: on a running game whose map holds the legal cells of the side to
\* move, for every key m of the map with its capturing directions, the
\* child board of lines 61-67 of ReversiBot._negamax is the board Game.move
\* produces for m: m and the whole opponent run of every capturing
\* direction turned to the mover's colour.
C17_BotChildBoardIsGameBoard ==
    (/\ is_running(state)
     /\ DOMAIN legal_moves = LegalCells(board, SideToMove, OtherSide)) =>
        \A m \in DOMAIN legal_moves :
            LET child == BotChildBoard(board, m[1], m[2], legal_moves[m],
                                       my_color, opponent_color)
                game == FlipDirections([board EXCEPT ![m[1]][m[2]] = my_color],
                                       m[1], m[2], legal_moves[m], 1,
                                       my_color, opponent_color)
            IN  /\ child.exc = "none"
                /\ child.board = game.board
                /\ child.board = RuleBoard(board, m, my_color, opponent_color)

\* The weight grid as the claim gives it: corners, then the cells whose row
\* and column both lie in {0, 1, N-2, N-1}, then the interior, then the
\* rest of the edges.
ClaimedWeight(row, col) ==
    LET last == BOARD_SIZE - 1
        near == {0, 1, last - 1, last}
    IN  IF row \in {0, last} /\ col \in {0, last} THEN 100
        ELSE IF row \in near /\ col \in near THEN -10
        ELSE IF row \notin {0, last} /\ col \notin {0, last} THEN 1
        ELSE 10

RECURSIVE ClaimedCellScore(_, _, _, _)
ClaimedCellScore(b, my0, opp0, i) ==
    IF i > Len(ScanOrder) THEN 0
    ELSE LET m == ScanOrder[i]
         IN  (IF At(b, m) = my0 THEN ClaimedWeight(m[1], m[2])
              ELSE IF At(b, m) = opp0 THEN -ClaimedWeight(m[1], m[2])
              ELSE 0) + ClaimedCellScore(b, my0, opp0, i + 1)

\* C20: the weight of every cell in _evaluate is the one the claim gives
\* (100 for a corner, -10 for a non-corner cell with row and column in
\* {0, 1, N-2, N-1}, 1 for another interior cell, 10 for another edge cell),
\* and the cell score of the board is the sum of the weights of the cells of
\* self minus the sum of those of the opponent.
C20_WeightGridAsClaimed ==
    /\ \A m \in Cells : Weight(m[1], m[2]) = ClaimedWeight(m[1], m[2])
    /\ state # INITIALIZING =>
          CellScore(board, my_color, opponent_color, 1)
              = ClaimedCellScore(board, my_color, opponent_color, 1)

\* C20 without the cells next to a corner on the diagonal: the cell score is
\* the signed sum of the weights 100 for a corner, 1 for every cell that is
\* on no edge, -10 for an edge cell next to a corner, 10 for another edge
\* cell.
C20_WeightGridInteriorFirst ==
    \A m \in Cells :
        LET last == BOARD_SIZE - 1
            onedge == m[1] \in {0, last} \/ m[2] \in {0, last}
        IN  Weight(m[1], m[2]) =
                IF m[1] \in {0, last} /\ m[2] \in {0, last} THEN 100
                ELSE IF ~onedge THEN 1
                ELSE IF m[1] \in {1, last - 1} \/ m[2] \in {1, last - 1} THEN -10
                ELSE 10

\* C19: at the top of every iteration of the play loop the human is asked
\* to move iff the state is RUNNING_BLACK, and the bot iff it is
\* RUNNING_WHITE.
C19_TurnFlagFollowsGame ==
    (play.pc = "loop" /\ ret # "Diverges") =>
        /\ play.is_my_turn <=> state = RUNNING_BLACK
        /\ ~play.is_my_turn <=> state = RUNNING_WHITE

=============================================================================
